---------------------------- MODULE Spec2Model ----------------------------
(***************************************************************************)
(* RHI_PipelineState (Runtime/RHI/RHI_PipelineState.cpp): the setters that *)
(* accumulate pipeline state with one dirty flag per category, and Bind(), *)
(* which commits the dirty categories to the RHI_Device.                   *)
(***************************************************************************)
EXTENDS Integers, Sequences, FiniteSets

VARIABLES
    ps,         \* the RHI_PipelineState object: its member fields
    dev,        \* the device's constant-buffer binding table, slot -> binding
    lastOp,     \* the member function called last, with its argument
    ret,        \* what that call returned
    calls,      \* the backend calls that call issued, in order
    changed,    \* categories whose field changed since the last committing Bind()
    committed,  \* a Bind() with a non-null device has run
    batch,      \* arguments of the SetTexture and SetConstantBuffer calls made
                \* since the last committing Bind(), in call order
    opsLeft,    \* calls the run may still make (Unlimited: any number)
    running,    \* the process has not faulted
    device,     \* the RHI_Device object m_rhiDevice points to when not null
    pipeState,  \* the PipelineState (Vulkan) the caller builds Pipelines from
    pipelines,  \* the RHI_Pipeline objects constructed, in order of construction
    vk,         \* the Vulkan objects behind them
    cbuffer,    \* an RHI_ConstantBuffer object: its member fields
    importer    \* a ModelImporter object, with the folders of the file system

vars == <<ps, dev, lastOp, ret, calls, changed, committed, batch, opsLeft, running, device,
          pipeState, pipelines, vk, cbuffer, importer>>

-----------------------------------------------------------------------------
(* Bounds of the model *)

\* calls made on one RHI_PipelineState in a run of bounded length
MaxOps == 4
\* entries a sampler, texture or constant-buffer list accumulates
MaxBatch == 2
MaxPipelines == 2
\* bits of a uint32_t; a uint64_t has twice as many.  The widths are scaled
\* down so that wrapped and exact products both stay within TLC's integers.
WordBits == 8
\* meshes of a scene
MaxMeshes == 2

-----------------------------------------------------------------------------
(* Values *)

Null == "null"
Unlimited == -1

PrimitiveTopologyModes == {"PrimitiveTopology_NotAssigned", "TriangleList", "LineList"}
CullModes == {"Cull_NotAssigned", "Cull_Back", "Cull_Front"}
FillModes == {"Fill_NotAssigned", "Fill_Solid", "Fill_Wireframe"}

\* D3D11_InputLayout objects, with what GetInputLayout() and
\* GetInputLayoutBuffer() return for each
InputLayouts == {"layoutPosition", "layoutPositionTexture"}
GetInputLayout(inputLayout) ==
    IF inputLayout = "layoutPosition" THEN "Input_Position" ELSE "Input_PositionTexture"
GetInputLayoutBuffer(inputLayout) ==
    IF inputLayout = "layoutPosition" THEN "ilbPosition" ELSE "ilbPositionTexture"

\* RHI_ConstantBuffer objects and the native buffer GetBuffer() returns
ConstantBuffers == {"cbA", "cbB"}
GetBuffer(constantBuffer) ==
    IF constantBuffer = "cbA" THEN "bufA" ELSE "bufB"

Slots == {0, 1}
Scopes == {"Buffer_Global", "Buffer_PerDraw"}

\* RHI_Shader objects: shaderA declares a constant buffer, shaderB does not
Shaders == {"shaderA", "shaderB"}
GetShaderInputLayout(shader) ==
    IF shader = "shaderA" THEN "layoutPosition" ELSE "layoutPositionTexture"
GetConstantBuffer(shader) == IF shader = "shaderA" THEN "cbA" ELSE Null
GetBufferSlot(shader) == 0
GetBufferScope(shader) == "Buffer_Global"
GetVertexShaderBuffer(shader) == IF shader = "shaderA" THEN "vsA" ELSE "vsB"
GetPixelShaderBuffer(shader) == IF shader = "shaderA" THEN "psA" ELSE "psB"

IndexBuffers == {"ibA", "ibB"}
VertexBuffers == {"vbA", "vbB"}

\* RHI_Sampler objects and the native sampler GetBuffer() returns
Samplers == {"samplerA"}
GetSamplerBuffer(sampler) == "nativeSamplerA"

\* shader resources handed to SetTexture; null is allowed
ShaderResources == {"texA"}

\* viewport widths and heights; a default RHI_Viewport is 0 x 0
ViewportSizes == {<<0, 0>>, <<800, 600>>}

\* the categories of pipeline state, one dirty flag each
CategorySet ==
    { "Viewport", "VertexShader", "PixelShader", "PrimitiveTopology",
      "InputLayout", "CullMode", "FillMode", "Samplers", "Textures",
      "IndexBuffer", "VertexBuffer", "ConstantBuffers" }



-----------------------------------------------------------------------------
(* RHI_PipelineState::RHI_PipelineState.  The constructor assigns seven of  *)
(* the twelve dirty flags; the other five are read by Bind() with whatever  *)
(* value the object's memory held, given here as the argument `indeterminate`. *)

RHI_PipelineState(rhiDevice, indeterminate) ==
    [ m_rhiDevice              |-> rhiDevice,
      m_primitiveTopology      |-> "PrimitiveTopology_NotAssigned",
      m_inputLayout            |-> "Input_NotAssigned",
      m_cullMode               |-> "Cull_NotAssigned",
      m_fillMode               |-> "Fill_NotAssigned",
      m_inputLayoutBuffer      |-> Null,
      m_vertexShader           |-> Null,
      m_vertexShaderDirty      |-> FALSE,
      m_pixelShader            |-> Null,
      m_pixelShaderDirty       |-> FALSE,
      m_indexBufferDirty       |-> FALSE,
      m_vertexBufferDirty      |-> FALSE,
      m_constantBufferDirty    |-> FALSE,
      m_samplersDirty          |-> FALSE,
      m_texturesDirty          |-> FALSE,
      m_indexBuffer            |-> Null,
      m_vertexBuffer           |-> Null,
      m_samplers               |-> << >>,
      m_textures               |-> << >>,
      m_constantBuffersInfo    |-> << >>,
      m_viewport               |-> <<0, 0>>,
      m_primitiveTopologyDirty |-> "PrimitiveTopology" \in indeterminate,
      m_inputLayoutDirty       |-> "InputLayout" \in indeterminate,
      m_cullModeDirty          |-> "CullMode" \in indeterminate,
      m_fillModeDirty          |-> "FillMode" \in indeterminate,
      m_viewportDirty          |-> "Viewport" \in indeterminate ]

\* the flags the constructor leaves unassigned
UnassignedFlags ==
    {"PrimitiveTopology", "InputLayout", "CullMode", "FillMode", "Viewport"}

-----------------------------------------------------------------------------
(* The setters.  Each maps the object s and the arguments to the object     *)
(* after the call and the value returned ("void" when there is none).       *)

SetConstantBuffer(s, constantBuffer, slot, scope) ==
    [ s   |-> [s EXCEPT !.m_constantBuffersInfo =
                            Append(@, [m_buffer |-> GetBuffer(constantBuffer),
                                       m_slot   |-> slot,
                                       m_scope  |-> scope]),
                        !.m_constantBufferDirty = TRUE],
      ret |-> "void" ]

\* as SetInputLayout, without the comparison with the active layout
SetInputLayout_AlwaysStores(s, inputLayout) ==
    [s   |-> [s EXCEPT !.m_inputLayout       = GetInputLayout(inputLayout),
                       !.m_inputLayoutBuffer = GetInputLayoutBuffer(inputLayout),
                       !.m_inputLayoutDirty  = TRUE],
     ret |-> TRUE]

SetInputLayout(s, inputLayout) ==
    IF s.m_inputLayout = GetInputLayout(inputLayout)
    THEN [s |-> s, ret |-> FALSE]
    ELSE [s   |-> [s EXCEPT !.m_inputLayout       = GetInputLayout(inputLayout),
                            !.m_inputLayoutBuffer = GetInputLayoutBuffer(inputLayout),
                            !.m_inputLayoutDirty  = TRUE],
          ret |-> TRUE]

\* What a read through a null shared_ptr yields when the access does not
\* fault: nothing the program wrote.
Indeterminate == "indeterminate"

\* SetConstantBuffer with a null constantBuffer: constantBuffer->GetBuffer()
\* dereferences the null pointer, which is undefined.  The call either faults
\* at the access or appends a binding of whatever the read yielded.
SetConstantBuffer_Null(s, slot, scope) ==
    { [s |-> s, ret |-> "void", fault |-> TRUE],
      [s     |-> [s EXCEPT !.m_constantBuffersInfo =
                               Append(@, [m_buffer |-> Indeterminate,
                                          m_slot   |-> slot,
                                          m_scope  |-> scope]),
                           !.m_constantBufferDirty = TRUE],
       ret   |-> "void",
       fault |-> FALSE] }

\* SetInputLayout with a null inputLayout: inputLayout->GetInputLayout()
\* dereferences the null pointer.  The call either faults or goes on with the
\* value the read yielded, which may or may not equal m_inputLayout.
SetInputLayout_Null(s) ==
    { [s |-> s, ret |-> FALSE, fault |-> TRUE],
      [s |-> s, ret |-> FALSE, fault |-> FALSE],
      [s     |-> [s EXCEPT !.m_inputLayout       = Indeterminate,
                           !.m_inputLayoutBuffer = Indeterminate,
                           !.m_inputLayoutDirty  = TRUE],
       ret   |-> TRUE,
       fault |-> FALSE] }

\* as SetShader, giving up when SetInputLayout reports the layout as current
SetShader_StopsOnSameLayout(s, shader) ==
    IF shader = Null
    THEN [s |-> s, ret |-> FALSE]
    ELSE LET l == SetInputLayout(s, GetShaderInputLayout(shader))
         IN  IF ~l.ret
             THEN [s |-> s, ret |-> FALSE]
             ELSE [s   |-> [l.s EXCEPT !.m_vertexShader      = GetVertexShaderBuffer(shader),
                                       !.m_vertexShaderDirty = TRUE,
                                       !.m_pixelShader       = GetPixelShaderBuffer(shader),
                                       !.m_pixelShaderDirty  = TRUE],
                   ret |-> TRUE]

SetShader(s, shader) ==
    IF shader = Null
    THEN [s |-> s, ret |-> FALSE]
    ELSE LET s1 == SetInputLayout(s, GetShaderInputLayout(shader)).s
             s2 == IF GetConstantBuffer(shader) # Null
                   THEN SetConstantBuffer(s1, GetConstantBuffer(shader),
                                          GetBufferSlot(shader), GetBufferScope(shader)).s
                   ELSE s1
         IN  [s   |-> [s2 EXCEPT !.m_vertexShader      = GetVertexShaderBuffer(shader),
                                 !.m_vertexShaderDirty = TRUE,
                                 !.m_pixelShader       = GetPixelShaderBuffer(shader),
                                 !.m_pixelShaderDirty  = TRUE],
              ret |-> TRUE]

SetIndexBuffer(s, indexBuffer) ==
    IF indexBuffer = Null
    THEN [s |-> s, ret |-> FALSE]
    ELSE [s   |-> [s EXCEPT !.m_indexBuffer      = indexBuffer,
                            !.m_indexBufferDirty = TRUE],
          ret |-> TRUE]

SetVertexBuffer(s, vertexBuffer) ==
    IF vertexBuffer = Null
    THEN [s |-> s, ret |-> FALSE]
    ELSE [s   |-> [s EXCEPT !.m_vertexBuffer      = vertexBuffer,
                            !.m_vertexBufferDirty = TRUE],
          ret |-> TRUE]

\* as SetSampler, without the null check
SetSampler_NoNullCheck(s, sampler) ==
    [s   |-> [s EXCEPT !.m_samplers      = Append(@, IF sampler = Null THEN Null
                                                       ELSE GetSamplerBuffer(sampler)),
                       !.m_samplersDirty = TRUE],
     ret |-> TRUE]

SetSampler(s, sampler) ==
    IF sampler = Null
    THEN [s |-> s, ret |-> FALSE]
    ELSE [s   |-> [s EXCEPT !.m_samplers      = Append(@, GetSamplerBuffer(sampler)),
                            !.m_samplersDirty = TRUE],
          ret |-> TRUE]

\* as SetTexture, rejecting a null resource like the other setters
SetTexture_RejectNull(s, shaderResource) ==
    IF shaderResource = Null
    THEN [s |-> s, ret |-> FALSE]
    ELSE [s   |-> [s EXCEPT !.m_textures      = Append(@, shaderResource),
                            !.m_texturesDirty = TRUE],
          ret |-> TRUE]

SetTexture(s, shaderResource) ==
    [ s   |-> [s EXCEPT !.m_textures      = Append(@, shaderResource),
                        !.m_texturesDirty = TRUE],
      ret |-> TRUE ]

SetPrimitiveTopology(s, primitiveTopology) ==
    IF s.m_primitiveTopology = primitiveTopology
    THEN [s |-> s, ret |-> "void"]
    ELSE [s   |-> [s EXCEPT !.m_primitiveTopology      = primitiveTopology,
                            !.m_primitiveTopologyDirty = TRUE],
          ret |-> "void"]

\* as SetCullMode, without the comparison with the current value
SetCullMode_NoCompare(s, cullMode) ==
    [s   |-> [s EXCEPT !.m_cullMode      = cullMode,
                       !.m_cullModeDirty = TRUE],
     ret |-> "void"]

SetCullMode(s, cullMode) ==
    IF s.m_cullMode = cullMode
    THEN [s |-> s, ret |-> "void"]
    ELSE [s   |-> [s EXCEPT !.m_cullMode      = cullMode,
                            !.m_cullModeDirty = TRUE],
          ret |-> "void"]

SetFillMode(s, fillMode) ==
    IF s.m_fillMode = fillMode
    THEN [s |-> s, ret |-> "void"]
    ELSE [s   |-> [s EXCEPT !.m_fillMode      = fillMode,
                            !.m_fillModeDirty = TRUE],
          ret |-> "void"]

SetViewport(s, width, height) ==
    IF s.m_viewport[1] = width /\ s.m_viewport[2] = height
    THEN [s |-> s, ret |-> "void"]
    ELSE [s   |-> [s EXCEPT !.m_viewport      = <<width, height>>,
                            !.m_viewportDirty = TRUE],
          ret |-> "void"]

-----------------------------------------------------------------------------
(* RHI_PipelineState::Bind.  b is the call in progress: the object s, the   *)
(* backend calls issued so far, the two buffer results, and `failing`, what *)
(* fails in the backend this time: the index buffer's Bind(), the vertex    *)
(* buffer's Bind(), the device calls of the other categories ("Device").    *)

FailureClasses == {"IndexBuffer", "VertexBuffer", "Device"}

Fails(b, cat) ==
    IF cat \in {"IndexBuffer", "VertexBuffer"}
    THEN cat \in b.failing
    ELSE "Device" \in b.failing

\* one call on the device (or on the index/vertex buffer object)
BackendCall(b, cat, startSlot, count, data, scope) ==
    [ cat |-> cat, startSlot |-> startSlot, count |-> count, data |-> data,
      scope |-> scope, ok |-> ~Fails(b, cat) ]

Issue(b, call) == [b EXCEPT !.calls = Append(@, call)]

BindViewport(b) ==
    IF b.s.m_viewportDirty
    THEN [Issue(b, BackendCall(b, "Viewport", 0, 1, b.s.m_viewport, "none"))
             EXCEPT !.s.m_viewportDirty = FALSE]
    ELSE b

BindVertexShader(b) ==
    IF b.s.m_vertexShaderDirty
    THEN [Issue(b, BackendCall(b, "VertexShader", 0, 1, <<b.s.m_vertexShader>>, "none"))
             EXCEPT !.s.m_vertexShaderDirty = FALSE]
    ELSE b

BindPixelShader(b) ==
    IF b.s.m_pixelShaderDirty
    THEN [Issue(b, BackendCall(b, "PixelShader", 0, 1, <<b.s.m_pixelShader>>, "none"))
             EXCEPT !.s.m_pixelShaderDirty = FALSE]
    ELSE b

BindPrimitiveTopology(b) ==
    IF b.s.m_primitiveTopologyDirty
    THEN [Issue(b, BackendCall(b, "PrimitiveTopology", 0, 1, <<b.s.m_primitiveTopology>>, "none"))
             EXCEPT !.s.m_primitiveTopologyDirty = FALSE]
    ELSE b

BindInputLayout(b) ==
    IF b.s.m_inputLayoutDirty
    THEN [Issue(b, BackendCall(b, "InputLayout", 0, 1, <<b.s.m_inputLayoutBuffer>>, "none"))
             EXCEPT !.s.m_inputLayoutDirty = FALSE]
    ELSE b

\* as BindCullMode, without the test of the dirty flag
BindCullMode_Unconditional(b) ==
    [Issue(b, BackendCall(b, "CullMode", 0, 1, <<b.s.m_cullMode>>, "none"))
        EXCEPT !.s.m_cullModeDirty = FALSE]

BindCullMode(b) ==
    IF b.s.m_cullModeDirty
    THEN [Issue(b, BackendCall(b, "CullMode", 0, 1, <<b.s.m_cullMode>>, "none"))
             EXCEPT !.s.m_cullModeDirty = FALSE]
    ELSE b

BindFillMode(b) ==
    IF b.s.m_fillModeDirty
    THEN [Issue(b, BackendCall(b, "FillMode", 0, 1, <<b.s.m_fillMode>>, "none"))
             EXCEPT !.s.m_fillModeDirty = FALSE]
    ELSE b

\* as BindSamplers, releasing the list and leaving the flag set
BindSamplers_KeepFlag(b) ==
    IF b.s.m_samplersDirty
    THEN [Issue(b, BackendCall(b, "Samplers", 0, Len(b.s.m_samplers), b.s.m_samplers, "none"))
             EXCEPT !.s.m_samplers = << >>]
    ELSE b

BindSamplers(b) ==
    IF b.s.m_samplersDirty
    THEN [Issue(b, BackendCall(b, "Samplers", 0, Len(b.s.m_samplers), b.s.m_samplers, "none"))
             EXCEPT !.s.m_samplers      = << >>,
                    !.s.m_samplersDirty = FALSE]
    ELSE b

\* as BindTextures, without releasing the accumulated list
BindTextures_KeepList(b) ==
    IF b.s.m_texturesDirty
    THEN [Issue(b, BackendCall(b, "Textures", 0, Len(b.s.m_textures), b.s.m_textures, "none"))
             EXCEPT !.s.m_texturesDirty = FALSE]
    ELSE b

BindTextures(b) ==
    IF b.s.m_texturesDirty
    THEN [Issue(b, BackendCall(b, "Textures", 0, Len(b.s.m_textures), b.s.m_textures, "none"))
             EXCEPT !.s.m_textures      = << >>,
                    !.s.m_texturesDirty = FALSE]
    ELSE b

BindIndexBuffer(b) ==
    IF b.s.m_indexBufferDirty
    THEN [Issue(b, BackendCall(b, "IndexBuffer", 0, 1, <<b.s.m_indexBuffer>>, "none"))
             EXCEPT !.resultIndexBuffer    = ~Fails(b, "IndexBuffer"),
                    !.s.m_indexBufferDirty = FALSE]
    ELSE b

BindVertexBuffer(b) ==
    IF b.s.m_vertexBufferDirty
    THEN [Issue(b, BackendCall(b, "VertexBuffer", 0, 1, <<b.s.m_vertexBuffer>>, "none"))
             EXCEPT !.resultVertexBuffer    = ~Fails(b, "VertexBuffer"),
                    !.s.m_vertexBufferDirty = FALSE]
    ELSE b

\* the loop over m_constantBuffersInfo: one Bind_ConstantBuffers per entry
RECURSIVE BindEachConstantBuffer(_, _)
BindEachConstantBuffer(b, i) ==
    IF i > Len(b.s.m_constantBuffersInfo)
    THEN b
    ELSE LET bufferInfo == b.s.m_constantBuffersInfo[i]
         IN  BindEachConstantBuffer(
                 Issue(b, BackendCall(b, "ConstantBuffers", bufferInfo.m_slot, 1,
                                      <<bufferInfo.m_buffer>>, bufferInfo.m_scope)),
                 i + 1)

\* as the loop of BindConstantBuffers, from the last entry to the first
RECURSIVE BindEachConstantBufferBackwards(_, _)
BindEachConstantBufferBackwards(b, i) ==
    IF i < 1
    THEN b
    ELSE LET bufferInfo == b.s.m_constantBuffersInfo[i]
         IN  BindEachConstantBufferBackwards(
                 Issue(b, BackendCall(b, "ConstantBuffers", bufferInfo.m_slot, 1,
                                      <<bufferInfo.m_buffer>>, bufferInfo.m_scope)),
                 i - 1)

BindConstantBuffers_Backwards(b) ==
    IF b.s.m_constantBufferDirty
    THEN [BindEachConstantBufferBackwards(b, Len(b.s.m_constantBuffersInfo))
             EXCEPT !.s.m_constantBuffersInfo = << >>,
                    !.s.m_constantBufferDirty = FALSE]
    ELSE b

BindConstantBuffers(b) ==
    IF b.s.m_constantBufferDirty
    THEN [BindEachConstantBuffer(b, 1)
             EXCEPT !.s.m_constantBuffersInfo = << >>,
                    !.s.m_constantBufferDirty = FALSE]
    ELSE b

\* as BindOrder, with the constant buffers committed before the index buffer
BindOrder_ConstantBuffersEarly ==
    << "Viewport", "VertexShader", "PixelShader", "PrimitiveTopology",
       "InputLayout", "CullMode", "FillMode", "Samplers", "Textures",
       "ConstantBuffers", "IndexBuffer", "VertexBuffer" >>

\* the order in which Bind() goes through the categories
BindOrder ==
    << "Viewport", "VertexShader", "PixelShader", "PrimitiveTopology",
       "InputLayout", "CullMode", "FillMode", "Samplers", "Textures",
       "IndexBuffer", "VertexBuffer", "ConstantBuffers" >>

BindCategory(b, cat) ==
    CASE cat = "Viewport"          -> BindViewport(b)
      [] cat = "VertexShader"      -> BindVertexShader(b)
      [] cat = "PixelShader"       -> BindPixelShader(b)
      [] cat = "PrimitiveTopology" -> BindPrimitiveTopology(b)
      [] cat = "InputLayout"       -> BindInputLayout(b)
      [] cat = "CullMode"          -> BindCullMode(b)
      [] cat = "FillMode"          -> BindFillMode(b)
      [] cat = "Samplers"          -> BindSamplers(b)
      [] cat = "Textures"          -> BindTextures(b)
      [] cat = "IndexBuffer"       -> BindIndexBuffer(b)
      [] cat = "VertexBuffer"      -> BindVertexBuffer(b)
      [] cat = "ConstantBuffers"   -> BindConstantBuffers(b)

RECURSIVE BindFrom(_, _)
BindFrom(b, i) ==
    IF i > Len(BindOrder) THEN b ELSE BindFrom(BindCategory(b, BindOrder[i]), i + 1)

\* as Bind, returning failure when any backend call of the commit failed
Bind_AnyFailure(s, failing) ==
    IF ~s.m_rhiDevice
    THEN [s |-> s, calls |-> << >>, ret |-> FALSE]
    ELSE LET b == BindFrom([s |-> s, calls |-> << >>, failing |-> failing,
                            resultIndexBuffer |-> TRUE,
                            resultVertexBuffer |-> TRUE], 1)
         IN  [s |-> b.s, calls |-> b.calls,
              ret |-> \A i \in 1..Len(b.calls) : b.calls[i].ok]

Bind(s, failing) ==
    IF ~s.m_rhiDevice
    THEN [s |-> s, calls |-> << >>, ret |-> FALSE]
    ELSE LET b == BindFrom([s |-> s, calls |-> << >>, failing |-> failing,
                            resultIndexBuffer |-> TRUE,
                            resultVertexBuffer |-> TRUE], 1)
         IN  [s |-> b.s, calls |-> b.calls,
              ret |-> b.resultIndexBuffer /\ b.resultVertexBuffer]

-----------------------------------------------------------------------------
(* The device's constant-buffer table: Bind_ConstantBuffers(slot, 1, scope, *)
(* buffer) puts the buffer at the slot, replacing what was bound there.     *)

Bind_ConstantBuffers(table, call) ==
    [table EXCEPT ![call.startSlot] = [buffer |-> call.data[1], scope |-> call.scope]]

RECURSIVE Execute(_, _, _)
Execute(table, issued, i) ==
    IF i > Len(issued)
    THEN table
    ELSE Execute(IF issued[i].cat = "ConstantBuffers" /\ issued[i].ok
                 THEN Bind_ConstantBuffers(table, issued[i])
                 ELSE table,
                 issued, i + 1)

Unbound == [buffer |-> Null, scope |-> "none"]

-----------------------------------------------------------------------------
(* RHI_Device::RHI_Device (D3D11).  The object records, next to its members, *)
(* the steps of the constructor that ran, every D3D11CreateDevice attempt    *)
(* and what was logged.                                                      *)

HRESULTS == {"S_OK", "DXGI_ERROR_SDK_COMPONENT_MISSING", "E_FAIL"}
AnnotationResults == {"S_OK", "E_NOINTERFACE"}
FAILED(result) == result # "S_OK"

FeatureLevels == {"9_1", "9_2", "9_3", "10_0", "10_1", "11_0", "11_1", "12_0", "12_1"}
\* the levels the switch logs; 12_0 and 12_1 only break
LoggedFeatureLevels == FeatureLevels \ {"12_0", "12_1"}

\* the object when the constructor body starts
NewDevice(debug) ==
    [ m_initialized  |-> FALSE,
      debug          |-> debug,
      physical_device |-> FALSE,
      device         |-> FALSE,
      device_context |-> FALSE,
      annotation     |-> FALSE,
      attempts       |-> << >>,
      steps          |-> << >>,
      log            |-> << >> ]

Log(d, level, text) == [d EXCEPT !.log = Append(@, [level |-> level, text |-> text])]

Step(d, step) == [d EXCEPT !.steps = Append(@, step)]

\* d3d11_common::DetectAdapters: the device has a primary physical device
\* when one was detected
DetectAdapters(d, physical_device) ==
    [Step(d, "DetectAdapters") EXCEPT !.physical_device = physical_device]

\* the lambda create_device: one D3D11CreateDevice call with the current
\* device_flags; device and immediate context exist when it succeeded
create_device(d, debugFlag, result) ==
    [d EXCEPT !.attempts       = Append(@, [debugFlag |-> debugFlag, result |-> result]),
              !.device         = ~FAILED(result),
              !.device_context = ~FAILED(result)]

log_feature_level(d, level) ==
    IF level \in LoggedFeatureLevels THEN Log(d, "info", level) ELSE d

\* as RHI_Device, carrying on after a failed device creation
RHI_Device_IgnoresFailure(debug, physical_device, first, second, level, annotation) ==
    LET d0 == DetectAdapters(NewDevice(debug), physical_device)
        d1 == create_device(Step(d0, "CreateDevice"), debug, first)
        d2 == log_feature_level(Step(d1, "LogFeatureLevel"), level)
    IN  [d2 EXCEPT !.m_initialized = TRUE]

\* debug: m_rhi_context->debug; physical_device: GetPrimaryPhysicalDevice()
\* found one; first, second: what D3D11CreateDevice returns on the first and
\* on a second call; level: GetFeatureLevel(); annotation: what the
\* QueryInterface for ID3DUserDefinedAnnotation returns
RHI_Device(debug, physical_device, first, second, level, annotation) ==
    LET d0 == DetectAdapters(NewDevice(debug), physical_device)
    IN  IF ~physical_device
        THEN Log(d0, "error", "Failed to detect any devices")
        ELSE LET retry  == first = "DXGI_ERROR_SDK_COMPONENT_MISSING"
                 d1     == create_device(Step(d0, "CreateDevice"), debug, first)
                 d2     == IF retry
                           THEN create_device(
                                    Log(d1, "warning", "Failed to create device with D3D11_CREATE_DEVICE_DEBUG"),
                                    FALSE, second)
                           ELSE d1
                 result == IF retry THEN second ELSE first
             IN  IF FAILED(result)
                 THEN Log(d2, "error", "Failed to create device")
                 ELSE LET d3 == log_feature_level(Step(d2, "LogFeatureLevel"), level)
                      IN  IF ~debug
                          THEN [d3 EXCEPT !.m_initialized = TRUE]
                          ELSE LET d4 == [Step(d3, "Annotations")
                                             EXCEPT !.annotation = ~FAILED(annotation)]
                               IN  IF FAILED(annotation)
                                   THEN Log(d4, "error", "Failed to create ID3DUserDefinedAnnotation")
                                   ELSE [d4 EXCEPT !.m_initialized = TRUE]

\* every device a construction can end with
Devices ==
    { RHI_Device(debug, physical_device, first, second, level, annotation) :
          debug \in BOOLEAN, physical_device \in BOOLEAN,
          first \in HRESULTS, second \in HRESULTS,
          level \in FeatureLevels, annotation \in AnnotationResults }

\* a device whose construction met no failure
WorkingDevice == RHI_Device(FALSE, TRUE, "S_OK", "S_OK", "11_1", "S_OK")

-----------------------------------------------------------------------------
(* RHI_Pipeline (Vulkan).  The PipelineState it is built from is the struct *)
(* of the Vulkan backend: plain fields, copied by assignment.               *)

VK_NULL_HANDLE == 0

\* viewports and scissor rectangles; the zero ones are not defined
Viewports == {<<0, 0>>, <<800, 600>>}
Scissors == {<<0, 0, 0, 0>>, <<10, 20, 400, 300>>}
IsDefined(area) == \E i \in DOMAIN area : area[i] # 0

\* shader objects: GetResource() is null for a shader that never compiled,
\* GetEntryPoint() for one that has no entry point
VertexShaders == {"vertexShader", "vertexShaderUncompiled", "vertexShaderUnnamed"}
PixelShaders == {"pixelShader", "pixelShaderUncompiled", "pixelShaderUnnamed"}
GetResource(shader) ==
    IF shader \in {"vertexShaderUncompiled", "pixelShaderUncompiled"} THEN Null ELSE shader
GetEntryPoint(shader) ==
    IF shader \in {"vertexShaderUnnamed", "pixelShaderUnnamed"} THEN Null ELSE "main"

\* rasterizer line widths, in tenths; 1.0f is what the constructor falls
\* back to
UnitLineWidth == 10
LineWidths == {5, UnitLineWidth, 30}

\* the PipelineState values a caller can hand over
PipelineStates(viewports, scissors, vertexShaders, pixelShaders, lineWidths) ==
    [ viewport        : viewports,
      line_width      : lineWidths,
      scissor         : scissors,
      dynamic_scissor : BOOLEAN,
      shader_vertex   : vertexShaders,
      shader_pixel    : pixelShaders,
      frame_resources : {FALSE} ]

\* m_state.CreateFrameResources(rhi_device.get())
CreateFrameResources(state) == [state EXCEPT !.frame_resources = TRUE]

\* the Vulkan device: handles handed out so far, handles alive, handles that
\* submitted GPU work still uses, the destroy calls made, and the feature
\* device_features.wideLines
NewVulkan ==
    [next |-> 1, live |-> {}, pending |-> {}, destroys |-> << >>, wideLines |-> TRUE]

\* a vkCreate* call: a handle never handed out before when it succeeds, the
\* null handle when it fails
vkCreate(v, ok) ==
    IF ok
    THEN [v |-> [v EXCEPT !.next = @ + 1, !.live = @ \cup {v.next}], handle |-> v.next]
    ELSE [v |-> v, handle |-> VK_NULL_HANDLE]

\* a vkDestroy* call; destroying the null handle does nothing
vkDestroy(v, call, handle) ==
    [v EXCEPT !.live     = @ \ {handle},
              !.destroys = Append(@, [call   |-> call,
                                      handle |-> handle,
                                      idle   |-> v.pending = {}])]

\* the object when the constructor body starts, with a record of the build
\* steps run, the backend calls that failed and the handles created for it
NewPipeline ==
    [ m_state           |-> Null,
      dynamic_states    |-> << >>,
      pDynamicState     |-> "unset",
      scissor           |-> <<0, 0, 0, 0>>,
      shader_stages     |-> << >>,
      lineWidth         |-> 0,
      m_descriptor_set  |-> Null,
      m_pipeline_layout |-> VK_NULL_HANDLE,
      m_pipeline        |-> VK_NULL_HANDLE,
      steps             |-> << >>,
      failed            |-> {},
      created           |-> {},
      destructor        |-> 0,
      waitedFor         |-> {} ]

Build(p, step) == [p EXCEPT !.steps = Append(@, step)]

Failure(p, step, ok) == IF ok THEN p ELSE [p EXCEPT !.failed = @ \cup {step}]

\* lines 53-104: the dynamic states and the fixed scissor rectangle
ViewportAndScissor(p) ==
    LET state == p.m_state
    IN  [Build(p, "ViewportAndScissor") EXCEPT
            !.dynamic_states =
                (IF ~IsDefined(state.viewport)
                 THEN <<"VK_DYNAMIC_STATE_VIEWPORT">> ELSE << >>)
                \o (IF state.dynamic_scissor
                    THEN <<"VK_DYNAMIC_STATE_SCISSOR">> ELSE << >>),
            !.scissor =
                IF ~IsDefined(state.scissor)
                THEN <<0, 0, state.viewport[1], state.viewport[2]>>
                ELSE state.scissor]

\* the test of lines 119 and 140 on a stage's module and pName
StageIsInvalid(shader) == GetResource(shader) = Null \/ GetEntryPoint(shader) = Null

\* as ShaderStages, leaving out a pixel shader that has no module or entry
\* point as if there were none
ShaderStages_SkipsInvalidPixel(p) ==
    LET state == p.m_state
        q     == Build(p, "ShaderStages")
    IN  IF state.shader_vertex = Null \/ StageIsInvalid(state.shader_vertex)
        THEN [p |-> q, valid |-> FALSE]
        ELSE LET q1 == [q EXCEPT !.shader_stages = Append(@, state.shader_vertex)]
             IN  IF state.shader_pixel = Null \/ StageIsInvalid(state.shader_pixel)
                 THEN [p |-> q1, valid |-> TRUE]
                 ELSE [p     |-> [q1 EXCEPT !.shader_stages = Append(@, state.shader_pixel)],
                       valid |-> TRUE]

\* lines 106-147: the shader stages; "invalid" when the constructor returns
ShaderStages(p) ==
    LET state == p.m_state
        q     == Build(p, "ShaderStages")
    IN  IF state.shader_vertex = Null \/ StageIsInvalid(state.shader_vertex)
        THEN [p |-> q, valid |-> FALSE]
        ELSE LET q1 == [q EXCEPT !.shader_stages = Append(@, state.shader_vertex)]
             IN  IF state.shader_pixel = Null
                 THEN [p |-> q1, valid |-> TRUE]
                 ELSE IF StageIsInvalid(state.shader_pixel)
                      THEN [p |-> q1, valid |-> FALSE]
                      ELSE [p     |-> [q1 EXCEPT !.shader_stages = Append(@, state.shader_pixel)],
                            valid |-> TRUE]

\* as FixedFunction, handing the requested line width on whatever the device
\* supports
FixedFunction_PassThrough(p, v) ==
    [Build(p, "FixedFunction") EXCEPT !.lineWidth = p.m_state.line_width]

\* lines 149-276: vertex input, input assembly, rasterizer, multisampling,
\* blend and depth-stencil state; of these the rasterizer line width depends
\* on the device
FixedFunction(p, v) ==
    [Build(p, "FixedFunction") EXCEPT
        !.lineWidth = IF v.wideLines THEN p.m_state.line_width ELSE UnitLineWidth]

\* lines 278-300: the descriptor set, whose Initialize() reports nothing to
\* the constructor, and the pipeline layout
PipelineLayout(p, v, descriptorOk, layoutOk) ==
    LET q == Failure([Build(p, "DescriptorSet") EXCEPT
                         !.m_descriptor_set =
                             IF descriptorOk THEN "descriptorSet" ELSE "descriptorSetFailed"],
                     "DescriptorSet", descriptorOk)
        c == vkCreate(v, layoutOk)
    IN  [p |-> Failure([Build(q, "PipelineLayout") EXCEPT
                               !.m_pipeline_layout = c.handle,
                               !.created           = @ \cup ({c.handle} \ {VK_NULL_HANDLE})],
                       "PipelineLayout", layoutOk),
         v |-> c.v]

\* lines 302-326: the graphics pipeline and its name
GraphicsPipeline(p, v, pipelineOk) ==
    LET c == vkCreate(v, pipelineOk)
        q == Failure([Build(p, "GraphicsPipeline") EXCEPT
                         !.pDynamicState = IF p.dynamic_states = << >>
                                           THEN "nullptr" ELSE "&dynamic_state",
                         !.m_pipeline    = c.handle,
                         !.created       = @ \cup ({c.handle} \ {VK_NULL_HANDLE})],
                     "GraphicsPipeline", pipelineOk)
    IN  [p |-> Build(q, "SetPipelineName"), v |-> c.v]

\* as RHI_Pipeline, with the pipeline layout taken from the first one made
RHI_Pipeline_SharedLayout(v, pipeline_state, descriptorOk, layoutOk, pipelineOk) ==
    LET p0 == [NewPipeline EXCEPT !.m_state = CreateFrameResources(pipeline_state)]
        l  == PipelineLayout(ViewportAndScissor(p0), v, descriptorOk, layoutOk)
    IN  GraphicsPipeline([l.p EXCEPT !.m_pipeline_layout =
                                         IF layoutOk THEN 1 ELSE VK_NULL_HANDLE],
                         l.v, pipelineOk)

\* RHI_Pipeline::RHI_Pipeline: the object built and the Vulkan objects after
\* it; descriptorOk, layoutOk and pipelineOk say which backend calls succeed
RHI_Pipeline(v, pipeline_state, descriptorOk, layoutOk, pipelineOk) ==
    LET p0 == [NewPipeline EXCEPT !.m_state = CreateFrameResources(pipeline_state)]
        p1 == ViewportAndScissor(p0)
        s  == ShaderStages(p1)
    IN  IF ~s.valid
        THEN [p |-> s.p, v |-> v]
        ELSE LET l == PipelineLayout(FixedFunction(s.p, v), v, descriptorOk, layoutOk)
             IN  IF ~layoutOk
                 THEN l
                 ELSE GraphicsPipeline(l.p, l.v, pipelineOk)

\* RHI_Device::Queue_WaitAll: returns when no submitted work is outstanding
Queue_WaitAll(v) == [v EXCEPT !.pending = {}]

\* as DestructorOrder, destroying the pipeline before the wait
DestructorOrder_DestroyFirst ==
    <<"vkDestroyPipeline", "Queue_WaitAll", "vkDestroyPipelineLayout">>

\* RHI_Pipeline::~RHI_Pipeline: the calls of the destructor, in order
DestructorOrder ==
    <<"Queue_WaitAll", "vkDestroyPipeline", "vkDestroyPipelineLayout">>

\* one call of the destructor of p
DestructorCall(p, v, call) ==
    CASE call = "Queue_WaitAll" ->
             [p |-> [p EXCEPT !.waitedFor = v.pending], v |-> Queue_WaitAll(v)]
      [] call = "vkDestroyPipeline" ->
             [p |-> [p EXCEPT !.m_pipeline = VK_NULL_HANDLE],
              v |-> vkDestroy(v, call, p.m_pipeline)]
      [] call = "vkDestroyPipelineLayout" ->
             [p |-> [p EXCEPT !.m_pipeline_layout = VK_NULL_HANDLE],
              v |-> vkDestroy(v, call, p.m_pipeline_layout)]

\* what a change of the caller's PipelineState does to the Pipelines built
\* from it: nothing, m_state being a copy
CallerSetState_Aliased(built, state) ==
    [i \in DOMAIN built |-> [built[i] EXCEPT !.m_state = CreateFrameResources(state)]]

CallerSetState(built, state) == built

-----------------------------------------------------------------------------
(* RHI_ConstantBuffer (Runtime/RHI/RHI_ConstantBuffer.h).  The members are  *)
(* uint32_t, m_size_gpu is uint64_t; unsigned arithmetic wraps at the width *)
(* of its operands.                                                         *)

UInt32(n) == n % (2 ^ WordBits)
UInt64(n) == n % (2 ^ (2 * WordBits))

\* sizeof(T), element counts and offset indices: small ones, and ones whose
\* products pass the largest uint32_t
Strides == {1, 2 ^ (WordBits - 4), 2 ^ (WordBits - 2)}
ElementCounts == {1, 2, 4, 8}
OffsetIndices == {0, 1, 4, 8}

\* lines 34-38 and the member initialisers of lines 72-76
RHI_ConstantBuffer ==
    [ m_stride               |-> 0,
      m_element_count        |-> 1,
      m_offset_index         |-> 0,
      m_offset_dynamic_index |-> 0,
      m_size_gpu             |-> 0 ]

\* Create<T>(element_count), lines 41-48: the product is formed in uint32_t
\* and the result is widened
Create(c, sizeofT, element_count) ==
    [c EXCEPT !.m_stride        = UInt32(sizeofT),
              !.m_element_count = element_count,
              !.m_size_gpu      = UInt64(UInt32(UInt32(sizeofT) * element_count))]

GetOffset(c) == UInt32(c.m_offset_index * c.m_stride)
SetOffsetIndex(c, offset_index) == [c EXCEPT !.m_offset_index = offset_index]
GetOffsetDynamic(c) == UInt32(c.m_offset_dynamic_index * c.m_stride)
SetOffsetIndexDynamic(c, offset_index) == [c EXCEPT !.m_offset_dynamic_index = offset_index]

-----------------------------------------------------------------------------
(* ModelImporter (Directus3D/AssetImporting/ModelImporter.cpp).  A path is  *)
(* given by its directory, file name and extension; a folder by the pieces  *)
(* the code concatenates.                                                   *)

EmptyString == [dir |-> "", name |-> "", ext |-> ""]
ModelFiles ==
    { [dir |-> "Models/", name |-> "cube", ext |-> ".obj"],
      [dir |-> "Models/", name |-> "tree", ext |-> ".fbx"] }

GetFileNameFromPath(path) == [path EXCEPT !.dir = ""]
GetFileNameNoExtensionFromPath(path) == path.name

\* the scenes importer.ReadFile can return: the meshes, HasMaterials() and
\* whether a material names a texture that FindTexture finds
Scenes ==
    [ mNumMeshes : 0..MaxMeshes, HasMaterials : BOOLEAN, texture : BOOLEAN ]

\* the pointer ReadFile returns: null, << >>, or one scene
ReadFile == {<< >>} \cup { <<scene>> : scene \in Scenes }

\* lines 60-66; m_modelName and m_fullModelPath are default-constructed strings
ModelImporter ==
    [ m_fullModelPath |-> EmptyString,
      m_modelName     |-> EmptyString,
      folders         |-> {},
      created         |-> << >>,
      saved           |-> << >> ]

ModelFolder(m, sub) == <<"Assets/Models/", GetFileNameNoExtensionFromPath(m.m_modelName), sub>>

CreateFolder(m, folder) ==
    [m EXCEPT !.folders = @ \cup {folder}, !.created = Append(@, folder)]

SaveInto(m, folder) == [m EXCEPT !.saved = Append(@, folder)]

\* lines 101-106
CreateFolders(m) ==
    LET m1 == CreateFolder(m, <<"Assets/">>)
        m2 == CreateFolder(m1, <<"Assets/Models/">>)
        m3 == CreateFolder(m2, ModelFolder(m2, ""))
        m4 == CreateFolder(m3, ModelFolder(m3, "/Meshes/"))
        m5 == CreateFolder(m4, ModelFolder(m4, "/Materials/"))
    IN  CreateFolder(m5, ModelFolder(m5, "/Textures/"))

\* AddTextureToMaterial, lines 357-375: copies the texture and saves its metadata
AddTextureToMaterial(m, scene) ==
    IF scene.texture THEN SaveInto(m, ModelFolder(m, "/Textures/")) ELSE m

\* ProcessMesh, lines 217-288: saves the mesh, then the textures and the
\* material when the scene has materials
ProcessMesh(m, scene) ==
    LET m1 == SaveInto(m, ModelFolder(m, "/Meshes/"))
    IN  IF scene.HasMaterials
        THEN SaveInto(AddTextureToMaterial(m1, scene), ModelFolder(m1, "/Materials/"))
        ELSE m1

RECURSIVE ProcessMeshes(_, _, _)
ProcessMeshes(m, scene, i) ==
    IF i >= scene.mNumMeshes THEN m ELSE ProcessMeshes(ProcessMesh(m, scene), scene, i + 1)

\* ProcessNode on the root node, lines 166-212: takes the model's name from
\* the path, then goes through the meshes of the node and of its children
ProcessNode(m, scene) ==
    ProcessMeshes([m EXCEPT !.m_modelName = GetFileNameFromPath(m.m_fullModelPath)], scene, 0)

\* Load, lines 83-118
Load(m, filePath, scene) ==
    LET m0 == [m EXCEPT !.m_fullModelPath = filePath, !.created = << >>, !.saved = << >>]
    IN  IF scene = << >>
        THEN [m |-> m0, ret |-> FALSE]
        ELSE [m |-> ProcessNode(CreateFolders(m0), scene[1]), ret |-> TRUE]

-----------------------------------------------------------------------------
(* Reading the object by category *)

Dirty(s, cat) ==
    CASE cat = "Viewport"          -> s.m_viewportDirty
      [] cat = "VertexShader"      -> s.m_vertexShaderDirty
      [] cat = "PixelShader"       -> s.m_pixelShaderDirty
      [] cat = "PrimitiveTopology" -> s.m_primitiveTopologyDirty
      [] cat = "InputLayout"       -> s.m_inputLayoutDirty
      [] cat = "CullMode"          -> s.m_cullModeDirty
      [] cat = "FillMode"          -> s.m_fillModeDirty
      [] cat = "Samplers"          -> s.m_samplersDirty
      [] cat = "Textures"          -> s.m_texturesDirty
      [] cat = "IndexBuffer"       -> s.m_indexBufferDirty
      [] cat = "VertexBuffer"      -> s.m_vertexBufferDirty
      [] cat = "ConstantBuffers"   -> s.m_constantBufferDirty

Field(s, cat) ==
    CASE cat = "Viewport"          -> s.m_viewport
      [] cat = "VertexShader"      -> <<s.m_vertexShader>>
      [] cat = "PixelShader"       -> <<s.m_pixelShader>>
      [] cat = "PrimitiveTopology" -> <<s.m_primitiveTopology>>
      [] cat = "InputLayout"       -> <<s.m_inputLayout, s.m_inputLayoutBuffer>>
      [] cat = "CullMode"          -> <<s.m_cullMode>>
      [] cat = "FillMode"          -> <<s.m_fillMode>>
      [] cat = "Samplers"          -> s.m_samplers
      [] cat = "Textures"          -> s.m_textures
      [] cat = "IndexBuffer"       -> <<s.m_indexBuffer>>
      [] cat = "VertexBuffer"      -> <<s.m_vertexBuffer>>
      [] cat = "ConstantBuffers"   -> s.m_constantBuffersInfo

DirtySet(s) == { cat \in CategorySet : Dirty(s, cat) }

\* the categories whose field differs between two states of the object
FieldsChanged(s, t) == { cat \in CategorySet : Field(s, cat) # Field(t, cat) }

-----------------------------------------------------------------------------
(* The state machine: one action per member function.  An action takes the  *)
(* set its arguments are drawn from.                                        *)

NoBatch == [textures |-> << >>, constantBuffers |-> << >>]

\* the object as constructed for a device in `devices` (TRUE: a device,
\* FALSE: a null pointer), in a run of `limit` calls
InitAll(constructed, devices, flags, states, features, limit) ==
    /\ device \in constructed
    /\ pipeState \in states
    /\ pipelines = << >>
    /\ vk \in { [NewVulkan EXCEPT !.wideLines = wideLines] : wideLines \in features }
    /\ \E rhiDevice \in devices, indeterminate \in flags :
           ps = RHI_PipelineState(rhiDevice, indeterminate)
    /\ dev = [slot \in Slots |-> Unbound]
    /\ lastOp = [op |-> "RHI_PipelineState", arg |-> << >>]
    /\ ret = "void"
    /\ calls = << >>
    /\ changed = {}
    /\ committed = FALSE
    /\ batch = NoBatch
    /\ opsLeft = limit
    /\ running = TRUE
    /\ cbuffer = RHI_ConstantBuffer
    /\ importer = ModelImporter

\* a PipelineState with viewport and scissor pinned and both shaders compiled
PinnedState ==
    [ viewport        |-> <<800, 600>>,
      line_width      |-> UnitLineWidth,
      scissor         |-> <<10, 20, 400, 300>>,
      dynamic_scissor |-> FALSE,
      shader_vertex   |-> "vertexShader",
      shader_pixel    |-> "pixelShader",
      frame_resources |-> FALSE ]

InitOn(constructed, devices, limit) ==
    InitAll(constructed, devices, SUBSET UnassignedFlags, {PinnedState}, {TRUE}, limit)

Spend ==
    /\ running
    /\ opsLeft # 0
    /\ opsLeft' = IF opsLeft = Unlimited THEN Unlimited ELSE opsLeft - 1

\* a setter call: the object and the return value are the setter's result
Call(op, arg, r, requested) ==
    /\ ps' = r.s
    /\ batch' = requested
    /\ ret' = r.ret
    /\ lastOp' = [op |-> op, arg |-> arg]
    /\ calls' = << >>
    /\ changed' = changed \cup FieldsChanged(ps, r.s)
    /\ UNCHANGED <<dev, committed, running, device, pipeState, pipelines, vk>>
    /\ UNCHANGED <<cbuffer, importer>>

\* a call that faults: the process ends inside it
Fault(op, arg) ==
    /\ running' = FALSE
    /\ lastOp' = [op |-> op, arg |-> arg]
    /\ UNCHANGED <<ps, dev, ret, calls, changed, committed, batch, device>>
    /\ UNCHANGED <<pipeState, pipelines, vk, cbuffer, importer>>

DoSetShader(shaders) ==
    \E shader \in shaders :
        /\ Spend
        /\ GetConstantBuffer(shader) # Null => Len(ps.m_constantBuffersInfo) < MaxBatch
        /\ Call("SetShader", <<shader>>, SetShader(ps, shader),
                IF GetConstantBuffer(shader) # Null
                THEN [batch EXCEPT !.constantBuffers =
                         Append(@, <<GetConstantBuffer(shader), GetBufferSlot(shader),
                                     GetBufferScope(shader)>>)]
                ELSE batch)

DoSetIndexBuffer(indexBuffers) ==
    \E indexBuffer \in indexBuffers :
        /\ Spend
        /\ Call("SetIndexBuffer", <<indexBuffer>>, SetIndexBuffer(ps, indexBuffer), batch)

DoSetVertexBuffer(vertexBuffers) ==
    \E vertexBuffer \in vertexBuffers :
        /\ Spend
        /\ Call("SetVertexBuffer", <<vertexBuffer>>, SetVertexBuffer(ps, vertexBuffer), batch)

DoSetSampler(samplers) ==
    \E sampler \in samplers :
        /\ Spend
        /\ Len(ps.m_samplers) < MaxBatch
        /\ Call("SetSampler", <<sampler>>, SetSampler(ps, sampler), batch)

DoSetTexture(shaderResources) ==
    \E shaderResource \in shaderResources :
        /\ Spend
        /\ Len(ps.m_textures) < MaxBatch
        /\ Call("SetTexture", <<shaderResource>>, SetTexture(ps, shaderResource),
                [batch EXCEPT !.textures = Append(@, shaderResource)])

DoSetConstantBuffer(constantBuffers, slots, scopes) ==
    \E constantBuffer \in constantBuffers, slot \in slots, scope \in scopes :
        /\ Spend
        /\ Len(ps.m_constantBuffersInfo) < MaxBatch
        /\ Call("SetConstantBuffer", <<constantBuffer, slot, scope>>,
                SetConstantBuffer(ps, constantBuffer, slot, scope),
                [batch EXCEPT !.constantBuffers = Append(@, <<constantBuffer, slot, scope>>)])

DoSetConstantBufferNull(slots, scopes) ==
    \E slot \in slots, scope \in scopes :
        \E r \in SetConstantBuffer_Null(ps, slot, scope) :
            /\ Spend
            /\ Len(ps.m_constantBuffersInfo) < MaxBatch
            /\ IF r.fault
               THEN Fault("SetConstantBuffer", <<Null, slot, scope>>)
               ELSE Call("SetConstantBuffer", <<Null, slot, scope>>, r,
                         [batch EXCEPT !.constantBuffers = Append(@, <<Null, slot, scope>>)])

DoSetInputLayoutNull ==
    \E r \in SetInputLayout_Null(ps) :
        /\ Spend
        /\ IF r.fault
           THEN Fault("SetInputLayout", <<Null>>)
           ELSE Call("SetInputLayout", <<Null>>, r, batch)

DoSetPrimitiveTopology(modes) ==
    \E primitiveTopology \in modes :
        /\ Spend
        /\ Call("SetPrimitiveTopology", <<primitiveTopology>>,
                SetPrimitiveTopology(ps, primitiveTopology), batch)

DoSetInputLayout(inputLayouts) ==
    \E inputLayout \in inputLayouts :
        /\ Spend
        /\ Call("SetInputLayout", <<inputLayout>>, SetInputLayout(ps, inputLayout), batch)

DoSetCullMode(modes) ==
    \E cullMode \in modes :
        /\ Spend
        /\ Call("SetCullMode", <<cullMode>>, SetCullMode(ps, cullMode), batch)

DoSetFillMode(modes) ==
    \E fillMode \in modes :
        /\ Spend
        /\ Call("SetFillMode", <<fillMode>>, SetFillMode(ps, fillMode), batch)

DoSetViewport(sizes) ==
    \E size \in sizes :
        /\ Spend
        /\ Call("SetViewport", size, SetViewport(ps, size[1], size[2]), batch)

\* what the actions on Pipelines leave alone
pipelineStateVars ==
    <<ps, dev, ret, calls, changed, committed, batch, device, running, cbuffer, importer>>

\* the caller assigns its PipelineState
DoSetPipelineState(states) ==
    \E state \in states \ {pipeState} :
        /\ Spend
        /\ \A i \in DOMAIN pipelines : pipelines[i].destructor \in {0, Len(DestructorOrder)}
        /\ pipeState' = state
        /\ pipelines' = CallerSetState(pipelines, state)
        /\ lastOp' = [op |-> "SetPipelineState", arg |-> << >>]
        /\ UNCHANGED <<vk, pipelineStateVars>>

\* RHI_Pipeline(rhi_device, pipeState); the backend decides what fails
DoConstructPipeline ==
    \E descriptorOk \in BOOLEAN, layoutOk \in BOOLEAN, pipelineOk \in BOOLEAN :
        /\ Spend
        /\ Len(pipelines) < MaxPipelines
        /\ \A i \in DOMAIN pipelines : pipelines[i].destructor \in {0, Len(DestructorOrder)}
        /\ LET r == RHI_Pipeline(vk, pipeState, descriptorOk, layoutOk, pipelineOk)
           IN  /\ pipelines' = Append(pipelines, r.p)
               /\ vk' = r.v
        /\ lastOp' = [op |-> "RHI_Pipeline", arg |-> <<Len(pipelines) + 1>>]
        /\ UNCHANGED <<pipeState, pipelineStateVars>>

\* a draw with Pipeline i is submitted: the GPU uses its native objects
\* until the work completes
DoSubmit ==
    \E i \in DOMAIN pipelines :
        /\ Spend
        /\ \A k \in DOMAIN pipelines : pipelines[k].destructor \in {0, Len(DestructorOrder)}
        /\ pipelines[i].destructor = 0
        /\ pipelines[i].m_pipeline # VK_NULL_HANDLE
        /\ vk' = [vk EXCEPT !.pending =
                     @ \cup {pipelines[i].m_pipeline, pipelines[i].m_pipeline_layout}]
        /\ lastOp' = [op |-> "Submit", arg |-> <<i>>]
        /\ UNCHANGED <<pipeState, pipelines, pipelineStateVars>>

\* the GPU completes the work that uses the objects of Pipeline i
DoGpuComplete ==
    \E i \in DOMAIN pipelines :
        /\ vk.pending \cap {pipelines[i].m_pipeline, pipelines[i].m_pipeline_layout} # {}
        /\ vk' = [vk EXCEPT !.pending =
                     @ \ {pipelines[i].m_pipeline, pipelines[i].m_pipeline_layout}]
        /\ lastOp' = [op |-> "GpuComplete", arg |-> <<i>>]
        /\ UNCHANGED <<pipeState, pipelines, opsLeft, pipelineStateVars>>

\* ~RHI_Pipeline of Pipeline i, call by call; the first call starts it
DoDestroyPipeline ==
    \E i \in DOMAIN pipelines :
        /\ pipelines[i].destructor < Len(DestructorOrder)
        /\ IF pipelines[i].destructor = 0
           THEN /\ Spend
                /\ \A k \in DOMAIN pipelines :
                       pipelines[k].destructor \in {0, Len(DestructorOrder)}
           ELSE UNCHANGED opsLeft
        /\ LET r == DestructorCall(pipelines[i], vk,
                                   DestructorOrder[pipelines[i].destructor + 1])
           IN  /\ pipelines' = [pipelines EXCEPT
                                   ![i] = [r.p EXCEPT !.destructor = @ + 1]]
               /\ vk' = r.v
        /\ lastOp' = [op |-> "~RHI_Pipeline", arg |-> <<i>>]
        /\ UNCHANGED <<pipeState, pipelineStateVars>>

\* Bind(): the backend decides what fails
DoBind ==
    \E failing \in SUBSET FailureClasses :
        /\ Spend
        /\ ~device.m_initialized => "Device" \in failing
        /\ LET r == Bind(ps, failing)
           IN  /\ ps' = r.s
               /\ ret' = r.ret
               /\ calls' = r.calls
               /\ dev' = Execute(dev, r.calls, 1)
        /\ lastOp' = [op |-> "Bind", arg |-> << >>]
        /\ changed' = IF ps.m_rhiDevice THEN {} ELSE changed
        /\ committed' = (committed \/ ps.m_rhiDevice)
        /\ batch' = IF ps.m_rhiDevice THEN NoBatch ELSE batch
        /\ UNCHANGED <<running, device, pipeState, pipelines, vk, cbuffer, importer>>

-----------------------------------------------------------------------------
(* Spec: every member function, each setter with one valid argument, in     *)
(* runs of MaxOps calls on a PipelineState that has a device.               *)

\* the variables of the other objects
otherObjects ==
    <<ps, dev, calls, changed, committed, batch, running, device, pipeState, pipelines, vk>>

DoCreate(strides, counts) ==
    \E sizeofT \in strides, element_count \in counts, created \in BOOLEAN :
        /\ Spend
        /\ cbuffer' = Create(cbuffer, sizeofT, element_count)
        /\ lastOp' = [op |-> "Create", arg |-> <<sizeofT, element_count>>]
        /\ ret' = created
        /\ UNCHANGED <<importer, otherObjects>>

DoSetOffsetIndex(indices) ==
    \E offset_index \in indices :
        /\ Spend
        /\ cbuffer' = SetOffsetIndex(cbuffer, offset_index)
        /\ lastOp' = [op |-> "SetOffsetIndex", arg |-> <<offset_index>>]
        /\ ret' = "void"
        /\ UNCHANGED <<importer, otherObjects>>

DoSetOffsetIndexDynamic(indices) ==
    \E offset_index \in indices :
        /\ Spend
        /\ cbuffer' = SetOffsetIndexDynamic(cbuffer, offset_index)
        /\ lastOp' = [op |-> "SetOffsetIndexDynamic", arg |-> <<offset_index>>]
        /\ ret' = "void"
        /\ UNCHANGED <<importer, otherObjects>>

DoGetOffset ==
    /\ Spend
    /\ lastOp' = [op |-> "GetOffset", arg |-> << >>]
    /\ ret' = GetOffset(cbuffer)
    /\ UNCHANGED <<cbuffer, importer, otherObjects>>

DoGetOffsetDynamic ==
    /\ Spend
    /\ lastOp' = [op |-> "GetOffsetDynamic", arg |-> << >>]
    /\ ret' = GetOffsetDynamic(cbuffer)
    /\ UNCHANGED <<cbuffer, importer, otherObjects>>

DoLoad(files, scenes) ==
    \E filePath \in files, scene \in scenes :
        LET r == Load(importer, filePath, scene)
        IN  /\ Spend
            /\ importer' = r.m
            /\ lastOp' = [op |-> "Load", arg |-> <<filePath, scene>>]
            /\ ret' = r.ret
            /\ UNCHANGED <<cbuffer, otherObjects>>

Init == InitOn({WorkingDevice}, {TRUE}, MaxOps)

Next ==
    \/ DoSetShader({"shaderA"})
    \/ DoSetIndexBuffer({"ibA"})
    \/ DoSetVertexBuffer({"vbA"})
    \/ DoSetSampler({"samplerA"})
    \/ DoSetTexture({"texA"})
    \/ DoSetConstantBuffer({"cbB"}, {1}, {"Buffer_PerDraw"})
    \/ DoSetPrimitiveTopology({"TriangleList"})
    \/ DoSetInputLayout({"layoutPositionTexture"})
    \/ DoSetCullMode({"Cull_Back"})
    \/ DoSetFillMode({"Fill_Solid"})
    \/ DoSetViewport({<<800, 600>>})
    \/ DoBind

Spec == Init /\ [][Next]_vars

(* SpecScalars: the four setters that compare with the current value, with  *)
(* every argument, and Bind(), in runs of any length.                       *)

NextScalars ==
    \/ DoSetPrimitiveTopology(PrimitiveTopologyModes)
    \/ DoSetCullMode(CullModes)
    \/ DoSetFillMode(FillModes)
    \/ DoSetViewport(ViewportSizes)
    \/ DoBind

SpecScalars ==
    /\ InitOn({WorkingDevice}, {TRUE}, Unlimited)
    /\ [][NextScalars]_vars

(* SpecBuffers: the shader, buffer and sampler setters with every argument, *)
(* null included, and Bind(), in runs of MaxOps calls.                      *)

NextBuffers ==
    \/ DoSetShader(Shaders \cup {Null})
    \/ DoSetIndexBuffer(IndexBuffers \cup {Null})
    \/ DoSetVertexBuffer(VertexBuffers \cup {Null})
    \/ DoSetSampler(Samplers \cup {Null})
    \/ DoBind

SpecBuffers ==
    /\ InitOn({WorkingDevice}, {TRUE}, MaxOps)
    /\ [][NextBuffers]_vars

(* SpecLists: the setters that append to a batch, with every argument, and  *)
(* Bind(), in runs of MaxOps calls.                                         *)

NextLists ==
    \/ DoSetTexture(ShaderResources \cup {Null})
    \/ DoSetConstantBuffer(ConstantBuffers, Slots, {"Buffer_Global"})
    \/ DoBind

SpecLists ==
    /\ InitOn({WorkingDevice}, {TRUE}, MaxOps)
    /\ [][NextLists]_vars

(* SpecNull: SetConstantBuffer and SetInputLayout with every argument,      *)
(* null included, and Bind(), in runs of MaxOps calls.                      *)

NextNull ==
    \/ DoSetConstantBuffer(ConstantBuffers, {0}, {"Buffer_Global"})
    \/ DoSetConstantBufferNull({0}, {"Buffer_Global"})
    \/ DoSetInputLayout(InputLayouts)
    \/ DoSetInputLayoutNull
    \/ DoBind

SpecNull ==
    /\ InitOn({WorkingDevice}, {TRUE}, MaxOps)
    /\ [][NextNull]_vars

(* SpecDevice: a PipelineState made for a null device pointer or for a      *)
(* device of any construction outcome; setters and Bind(), in runs of       *)
(* MaxOps calls.                                                            *)

NextDevice ==
    \/ DoSetCullMode({"Cull_Back"})
    \/ DoSetIndexBuffer({"ibA"})
    \/ DoBind

SpecDevice ==
    /\ InitOn(Devices, {TRUE, FALSE}, MaxOps)
    /\ [][NextDevice]_vars

(* SpecPipelineBuild: Pipelines built from any PipelineState with any       *)
(* outcome of the backend calls, drawn with and destroyed; runs of MaxOps   *)
(* calls.                                                                   *)

AllPipelineStates ==
    PipelineStates(Viewports, Scissors, VertexShaders \cup {Null}, PixelShaders \cup {Null},
                   {UnitLineWidth})

NextPipelineBuild ==
    \/ DoConstructPipeline
    \/ DoSubmit
    \/ DoGpuComplete
    \/ DoDestroyPipeline

SpecPipelineBuild ==
    /\ InitAll({WorkingDevice}, {TRUE}, {{}}, AllPipelineStates, {TRUE}, MaxOps)
    /\ [][NextPipelineBuild]_vars

(* SpecPipeline: Pipelines built from PipelineStates that differ in the     *)
(* viewport and the vertex shader, drawn with and destroyed, while the      *)
(* caller goes on changing its PipelineState; runs of MaxOps calls.         *)

SomePipelineStates ==
    { state \in PipelineStates(Viewports, {<<0, 0, 0, 0>>},
                               {"vertexShader", Null}, {"pixelShader"}, {UnitLineWidth}) :
          ~state.dynamic_scissor }

NextPipeline ==
    \/ DoSetPipelineState(SomePipelineStates)
    \/ DoConstructPipeline
    \/ DoSubmit
    \/ DoGpuComplete
    \/ DoDestroyPipeline

SpecPipeline ==
    /\ InitAll({WorkingDevice}, {TRUE}, {{}}, SomePipelineStates, {TRUE}, MaxOps)
    /\ [][NextPipeline]_vars

(* SpecPipelineLines: Pipelines built from PipelineStates with compiled      *)
(* shaders and every line width, on devices with and without wide lines.    *)

LinePipelineStates ==
    { state \in PipelineStates({<<800, 600>>}, {<<0, 0, 0, 0>>},
                               {"vertexShader"}, {"pixelShader"}, LineWidths) :
          ~state.dynamic_scissor }

NextPipelineLines ==
    \/ DoSetPipelineState(LinePipelineStates)
    \/ DoConstructPipeline
    \/ DoDestroyPipeline

SpecPipelineLines ==
    /\ InitAll({WorkingDevice}, {TRUE}, {{}}, LinePipelineStates, BOOLEAN, MaxOps)
    /\ [][NextPipelineLines]_vars

(* SpecConstantBuffer: one RHI_ConstantBuffer, created and re-created with  *)
(* every stride and element count, its offsets set and read; runs of any    *)
(* length.                                                                  *)

NextConstantBuffer ==
    \/ DoCreate(Strides, ElementCounts)
    \/ DoSetOffsetIndex(OffsetIndices)
    \/ DoSetOffsetIndexDynamic(OffsetIndices)
    \/ DoGetOffset
    \/ DoGetOffsetDynamic

SpecConstantBuffer ==
    /\ InitAll({WorkingDevice}, {TRUE}, {{}}, {PinnedState}, {TRUE}, Unlimited)
    /\ [][NextConstantBuffer]_vars

(* SpecImporter: one ModelImporter loading model files one after another,   *)
(* with every outcome of ReadFile; runs of MaxOps calls.                    *)

NextImporter == DoLoad(ModelFiles, ReadFile)

SpecImporter ==
    /\ InitAll({WorkingDevice}, {TRUE}, {{}}, {PinnedState}, {TRUE}, MaxOps)
    /\ [][NextImporter]_vars

-----------------------------------------------------------------------------
(* Reading the backend calls of a Bind() *)

CallsOf(issued, cat) == { i \in 1..Len(issued) : issued[i].cat = cat }

IsBind(op) == op.op = "Bind"

-----------------------------------------------------------------------------
(* C1 *)

-----------------------------------------------------------------------------
(* C2 *)

\* the order the claim gives
C2_Order ==
    << "Viewport", "VertexShader", "PixelShader", "PrimitiveTopology",
       "InputLayout", "CullMode", "FillMode", "Samplers", "Textures",
       "IndexBuffer", "VertexBuffer", "ConstantBuffers" >>

C2_Rank(cat) == CHOOSE i \in 1..Len(C2_Order) : C2_Order[i] = cat

\* C2: the backend calls of one Bind() come in the order viewport, vertex
\* shader, pixel shader, topology, input layout, cull mode, fill mode, samplers,
\* textures, index buffer, vertex buffer, constant buffers.
C2_FixedOrder ==
    IsBind(lastOp) =>
        \A i, j \in 1..Len(calls) :
            i < j => C2_Rank(calls[i].cat) <= C2_Rank(calls[j].cat)

\* a Bind() that committed at least five categories, among them one set by the
\* constructor's unassigned flags or a scalar setter, a batch and a buffer
C2_Witness ==
    /\ IsBind(lastOp)
    /\ Cardinality({ calls[i].cat : i \in 1..Len(calls) }) >= 5
    /\ CallsOf(calls, "Viewport") # {}
    /\ CallsOf(calls, "Textures") # {}
    /\ CallsOf(calls, "IndexBuffer") # {}
    /\ CallsOf(calls, "ConstantBuffers") # {}

-----------------------------------------------------------------------------
(* C3 *)

\* C3: with a device, Bind() returns true exactly when the index-buffer bind
\* and the vertex-buffer bind it issued both succeeded (one not issued counts as
\* succeeded), whatever the other backend calls did; and whatever the index
\* buffer's bind returned, a dirty vertex buffer and dirty constant buffers are
\* still committed by that Bind().
C3_BindResult ==
    [][ IsBind(lastOp') /\ ps.m_rhiDevice =>
            /\ ret' = (\A i \in CallsOf(calls', "IndexBuffer") \cup CallsOf(calls', "VertexBuffer") :
                           calls'[i].ok)
            /\ ps.m_vertexBufferDirty =>
                   /\ CallsOf(calls', "VertexBuffer") # {}
                   /\ ~ps'.m_vertexBufferDirty
            /\ ps.m_constantBufferDirty =>
                   /\ Cardinality(CallsOf(calls', "ConstantBuffers")) = Len(ps.m_constantBuffersInfo)
                   /\ ~ps'.m_constantBufferDirty
                   /\ ps'.m_constantBuffersInfo = << >> ]_vars

\* a Bind() that returned false because the index buffer's bind failed, and
\* committed the vertex buffer and the constant buffers after it
C3_Witness ==
    /\ IsBind(lastOp)
    /\ ret = FALSE
    /\ \E i \in CallsOf(calls, "IndexBuffer") : ~calls[i].ok
    /\ \E i \in CallsOf(calls, "VertexBuffer") : calls[i].ok
    /\ CallsOf(calls, "ConstantBuffers") # {}

-----------------------------------------------------------------------------
(* C4 *)

\* the four setters C4 names, by the category each sets
C4_Setter(cat) ==
    CASE cat = "PrimitiveTopology" -> "SetPrimitiveTopology"
      [] cat = "CullMode"          -> "SetCullMode"
      [] cat = "FillMode"          -> "SetFillMode"
      [] cat = "Viewport"          -> "SetViewport"

C4_Categories == {"PrimitiveTopology", "CullMode", "FillMode", "Viewport"}

-----------------------------------------------------------------------------
(* C5 *)

\* the setters that assign a category's field
C5_Setters(cat) ==
    CASE cat = "VertexShader"      -> {"SetShader"}
      [] cat = "PixelShader"       -> {"SetShader"}
      [] cat = "IndexBuffer"       -> {"SetIndexBuffer"}
      [] cat = "VertexBuffer"      -> {"SetVertexBuffer"}
      [] cat = "InputLayout"       -> {"SetInputLayout", "SetShader"}
      [] cat = "PrimitiveTopology" -> {"SetPrimitiveTopology"}
      [] cat = "CullMode"          -> {"SetCullMode"}
      [] cat = "FillMode"          -> {"SetFillMode"}
      [] cat = "Viewport"          -> {"SetViewport"}
      [] OTHER                     -> {}

\* C5: no setter raises a dirty flag when the value it receives is the current
\* one, SetShader, SetVertexBuffer and SetIndexBuffer included: a setter call
\* that leaves the category's field as it was leaves its dirty flag as it was.
C5_NoFlagOnSameValue ==
    [][ \A cat \in CategorySet :
            lastOp'.op \in C5_Setters(cat) /\ Field(ps', cat) = Field(ps, cat) =>
                Dirty(ps', cat) = Dirty(ps, cat) ]_vars

-----------------------------------------------------------------------------
(* C6 *)

\* C6: a Bind() whose index- or vertex-buffer bind failed is no successful
\* commit, so the dirty flag of the category whose bind failed is still set
\* after that Bind().
C6_FailedBindStaysDirty ==
    IsBind(lastOp) =>
        \A i \in CallsOf(calls, "IndexBuffer") \cup CallsOf(calls, "VertexBuffer") :
            ~calls[i].ok => Dirty(ps, calls[i].cat)

-----------------------------------------------------------------------------
(* C7 *)

\* C7: after a Bind() that returned true every dirty flag is false and the
\* sampler, texture and constant-buffer lists are empty; a Bind() that follows
\* it with no setter call in between issues no backend call and returns true.
C7_CleanAfterBind ==
    [][ /\ IsBind(lastOp') /\ ret' = TRUE =>
               /\ DirtySet(ps') = {}
               /\ ps'.m_samplers = << >>
               /\ ps'.m_textures = << >>
               /\ ps'.m_constantBuffersInfo = << >>
        /\ IsBind(lastOp) /\ ret = TRUE /\ IsBind(lastOp') =>
               /\ calls' = << >>
               /\ ret' = TRUE ]_vars

\* a Bind() that returned true after committing a sampler, a texture and a
\* constant-buffer batch
C7_Witness ==
    /\ IsBind(lastOp)
    /\ ret = TRUE
    /\ CallsOf(calls, "Samplers") # {}
    /\ CallsOf(calls, "Textures") # {}
    /\ CallsOf(calls, "ConstantBuffers") # {}

-----------------------------------------------------------------------------
(* C8 *)

\* C8: SetTexture returns true for every argument, null included; the texture
\* batch a Bind() hands to the backend starts at slot 0 and holds the arguments
\* of the SetTexture calls made since the last commit, as many as there were
\* calls and in call order, each null at the place of its call.
C8_TextureBatch ==
    [][ /\ lastOp'.op = "SetTexture" => ret' = TRUE
        /\ IsBind(lastOp') /\ ps.m_rhiDevice /\ batch.textures # << >> =>
               \E i \in CallsOf(calls', "Textures") :
                   /\ CallsOf(calls', "Textures") = {i}
                   /\ calls'[i].startSlot = 0
                   /\ calls'[i].count = Len(batch.textures)
                   /\ calls'[i].data = batch.textures ]_vars

\* a Bind() that handed over the batch of SetTexture(nullptr); SetTexture(texA)
C8_Witness ==
    /\ IsBind(lastOp)
    /\ \E i \in CallsOf(calls, "Textures") :
           /\ calls[i].startSlot = 0
           /\ calls[i].data = <<Null, "texA">>

-----------------------------------------------------------------------------
(* C9 *)

\* the SetConstantBuffer calls of the batch that name a slot
C9_CallsAt(slot) ==
    { i \in 1..Len(batch.constantBuffers) : batch.constantBuffers[i][2] = slot }

\* C9: after a Bind() whose constant-buffer calls succeeded, every slot named
\* by a SetConstantBuffer call since the last commit holds one binding, the
\* buffer (and scope) of the last such call for that slot; the other slots
\* keep what they held.
C9_LastBindingWins ==
    [][ /\ IsBind(lastOp')
        /\ ps.m_rhiDevice
        /\ \A i \in CallsOf(calls', "ConstantBuffers") : calls'[i].ok
        => \A slot \in Slots :
               IF C9_CallsAt(slot) = {}
               THEN dev'[slot] = dev[slot]
               ELSE LET last == CHOOSE i \in C9_CallsAt(slot) :
                                    \A j \in C9_CallsAt(slot) : j <= i
                    IN  dev'[slot] = [buffer |-> GetBuffer(batch.constantBuffers[last][1]),
                                      scope  |-> batch.constantBuffers[last][3]] ]_vars

\* a Bind() that issued two bindings of different buffers for one slot, which
\* now holds the second
C9_Witness ==
    /\ IsBind(lastOp)
    /\ \E i, j \in CallsOf(calls, "ConstantBuffers") :
           /\ i < j
           /\ calls[i].startSlot = calls[j].startSlot
           /\ calls[i].data # calls[j].data
           /\ dev[calls[j].startSlot].buffer = calls[j].data[1]

-----------------------------------------------------------------------------
(* C10 *)

\* C10: SetShader, SetVertexBuffer, SetIndexBuffer and SetSampler called with
\* a null argument return false and leave every field, list and dirty flag of
\* the PipelineState as it was.
C10_NullRejected ==
    [][ /\ lastOp'.op \in {"SetShader", "SetVertexBuffer", "SetIndexBuffer", "SetSampler"}
        /\ lastOp'.arg = <<Null>>
        => /\ ret' = FALSE
           /\ ps' = ps ]_vars

\* SetSampler(nullptr) has just returned false on a PipelineState that holds a
\* sampler and a dirty index buffer
C10_Witness ==
    /\ lastOp.op = "SetSampler"
    /\ lastOp.arg = <<Null>>
    /\ ret = FALSE
    /\ ps.m_samplers # << >>
    /\ ps.m_indexBufferDirty

-----------------------------------------------------------------------------
(* C11 *)

\* C11: SetConstantBuffer called with a null buffer and SetInputLayout called
\* with a null layout reject the call: the call returns to the caller and
\* the binding list, the input layout and every dirty flag are as before.
C11_NullRejected ==
    [][ lastOp'.op \in {"SetConstantBuffer", "SetInputLayout"} /\ lastOp'.arg[1] = Null
        => running' /\ ps' = ps ]_vars

-----------------------------------------------------------------------------
(* C12 *)

\* C12: a SetShader call with a non-null shader returns true, also when the
\* input layout derived from the shader was already the current one; after it
\* the input layout is the shader's, the vertex and pixel shader handles are
\* the shader's and both shader dirty flags are set; the constant-buffer list
\* has grown by the shader's constant buffer with its declared slot and scope
\* when the shader declares one, and is as before otherwise.
C12_SetShaderEffects ==
    [][ lastOp'.op = "SetShader" /\ lastOp'.arg # <<Null>> =>
          LET shader == lastOp'.arg[1]
              layout == GetShaderInputLayout(shader)
          IN  /\ ret' = TRUE
              /\ ps'.m_inputLayout = GetInputLayout(layout)
              /\ ps'.m_inputLayoutBuffer = GetInputLayoutBuffer(layout)
              /\ ps'.m_vertexShader = GetVertexShaderBuffer(shader)
              /\ ps'.m_pixelShader = GetPixelShaderBuffer(shader)
              /\ ps'.m_vertexShaderDirty
              /\ ps'.m_pixelShaderDirty
              /\ IF GetConstantBuffer(shader) # Null
                 THEN /\ ps'.m_constantBuffersInfo =
                            Append(ps.m_constantBuffersInfo,
                                   [m_buffer |-> GetBuffer(GetConstantBuffer(shader)),
                                    m_slot   |-> GetBufferSlot(shader),
                                    m_scope  |-> GetBufferScope(shader)])
                      /\ ps'.m_constantBufferDirty
                 ELSE /\ ps'.m_constantBuffersInfo = ps.m_constantBuffersInfo
                      /\ ps'.m_constantBufferDirty = ps.m_constantBufferDirty ]_vars

\* SetShader has just returned true for a shader that declares a constant
\* buffer and whose input layout was already active and committed
C12_Witness ==
    /\ lastOp.op = "SetShader"
    /\ lastOp.arg # <<Null>>
    /\ GetConstantBuffer(lastOp.arg[1]) # Null
    /\ committed
    /\ "InputLayout" \notin changed
    /\ ~ps.m_inputLayoutDirty
    /\ ps.m_inputLayout = GetInputLayout(GetShaderInputLayout(lastOp.arg[1]))
    /\ ps.m_constantBuffersInfo # << >>
    /\ ret = TRUE

-----------------------------------------------------------------------------
(* C13 *)

\* C13: a Bind() on a PipelineState whose device pointer is null, or whose
\* device failed its initialisation, returns false, issues no backend call
\* and leaves every dirty flag and list as it was.
C13_BindNeedsInitialisedDevice ==
    [][ IsBind(lastOp') /\ (~ps.m_rhiDevice \/ ~device.m_initialized)
        => /\ ret' = FALSE
           /\ calls' = << >>
           /\ ps' = ps ]_vars

-----------------------------------------------------------------------------
(* C14 *)

\* C14: when debug instrumentation is requested and the first device
\* creation reports the debug component missing, the constructor has made
\* exactly one more attempt, without the debug flag, and logged exactly one
\* warning; and if that second attempt succeeded the device is initialised.
C14_DebugFallback ==
    (/\ device.debug
     /\ device.attempts # << >>
     /\ device.attempts[1].result = "DXGI_ERROR_SDK_COMPONENT_MISSING")
    => /\ Len(device.attempts) = 2
       /\ ~device.attempts[2].debugFlag
       /\ Cardinality({ i \in 1..Len(device.log) : device.log[i].level = "warning" }) = 1
       /\ ~FAILED(device.attempts[2].result) => device.m_initialized

-----------------------------------------------------------------------------
(* C15 *)

\* C15: a device for which no primary physical adapter was detected is not
\* initialised and its constructor ran no step after the detection; a device
\* whose last creation attempt failed is not initialised, made at most two
\* attempts and ran no step after the creation; an initialised device has a
\* native device and an immediate context.
C15_ConstructionFails ==
    /\ ~device.physical_device =>
           /\ ~device.m_initialized
           /\ device.steps = <<"DetectAdapters">>
           /\ device.attempts = << >>
    /\ (device.attempts # << >> /\ FAILED(device.attempts[Len(device.attempts)].result)) =>
           /\ ~device.m_initialized
           /\ Len(device.attempts) <= 2
           /\ device.steps = <<"DetectAdapters", "CreateDevice">>
    /\ device.m_initialized => device.device /\ device.device_context

\* a device with an adapter whose creation failed on the second, last attempt
C15_Witness ==
    /\ device.physical_device
    /\ Len(device.attempts) = 2
    /\ FAILED(device.attempts[2].result)
    /\ ~device.m_initialized
    /\ ~device.device

-----------------------------------------------------------------------------
(* C16 *)

\* the dynamic states of a Pipeline, as a set
C16_Dynamic(p) == { p.dynamic_states[k] : k \in DOMAIN p.dynamic_states }

\* C16: a Pipeline has the viewport among its dynamic states exactly when the
\* PipelineState it copied defines no viewport, and the scissor exactly when
\* that state defines no scissor rectangle; and the dynamic-state block is
\* handed to the graphics-pipeline creation exactly when there is a dynamic
\* state.
C16_DynamicIffNotPinned ==
    \A i \in DOMAIN pipelines :
        LET p == pipelines[i]
        IN  /\ "VK_DYNAMIC_STATE_VIEWPORT" \in C16_Dynamic(p) <=> ~IsDefined(p.m_state.viewport)
            /\ "VK_DYNAMIC_STATE_SCISSOR" \in C16_Dynamic(p) <=> ~IsDefined(p.m_state.scissor)
            /\ p.pDynamicState # "unset" =>
                   (p.pDynamicState = "&dynamic_state" <=> C16_Dynamic(p) # {})

-----------------------------------------------------------------------------
(* C17 *)

\* C17: when a backend call of the construction fails (descriptor-set
\* initialisation, pipeline-layout creation, graphics-pipeline creation), the
\* step that made it is the last build step that ran and the Pipeline holds
\* no native pipeline handle.
C17_FailureAbortsBuild ==
    \A i \in DOMAIN pipelines :
        LET p == pipelines[i]
        IN  \A step \in p.failed :
                /\ p.steps[Len(p.steps)] = step
                /\ p.m_pipeline = VK_NULL_HANDLE

-----------------------------------------------------------------------------
(* C18 *)

\* the destroy calls made for a handle
C18_Destroys(handle) ==
    { k \in DOMAIN vk.destroys : vk.destroys[k].handle = handle }

\* C18: every native destroy call of a Pipeline's destructor is made when no
\* submitted GPU work is outstanding, the wait having completed before it; no
\* handle is destroyed twice, and once the destructor has returned each
\* handle created for the Pipeline has been destroyed exactly once.
C18_WaitBeforeDestroy ==
    /\ \A k \in DOMAIN vk.destroys : vk.destroys[k].idle
    /\ \A k \in DOMAIN vk.destroys :
           vk.destroys[k].handle # VK_NULL_HANDLE =>
               Cardinality(C18_Destroys(vk.destroys[k].handle)) = 1
    /\ \A i \in DOMAIN pipelines :
           /\ pipelines[i].destructor \in 1..(Len(DestructorOrder) - 1) => vk.pending = {}
           /\ pipelines[i].destructor = Len(DestructorOrder) =>
                  \A handle \in pipelines[i].created :
                      /\ Cardinality(C18_Destroys(handle)) = 1
                      /\ handle \notin vk.live

\* a Pipeline whose destructor has returned, which had to wait for GPU work
\* that used its own pipeline and layout
C18_Witness ==
    \E i \in DOMAIN pipelines :
        /\ pipelines[i].destructor = Len(DestructorOrder)
        /\ Cardinality(pipelines[i].created) = 2
        /\ pipelines[i].created \subseteq pipelines[i].waitedFor

-----------------------------------------------------------------------------
(* C19 *)

\* the native handles a Pipeline holds
C19_Held(p) == {p.m_pipeline, p.m_pipeline_layout} \ {VK_NULL_HANDLE}

\* C19: two Pipelines never hold, and were never given, the same native
\* pipeline or pipeline-layout handle; and every handle held by a Pipeline
\* that has not been destroyed is alive, whatever other Pipelines were
\* destroyed.
C19_NoSharedHandles ==
    /\ \A i, j \in DOMAIN pipelines :
           i # j =>
               /\ C19_Held(pipelines[i]) \cap C19_Held(pipelines[j]) = {}
               /\ pipelines[i].created \cap pipelines[j].created = {}
    /\ \A i \in DOMAIN pipelines :
           /\ pipelines[i].destructor = 0 => C19_Held(pipelines[i]) \subseteq vk.live
           /\ pipelines[i].destructor = 0 => C19_Held(pipelines[i]) = pipelines[i].created

\* two Pipelines built in full, one of them destroyed since, the other still
\* holding its two live handles
C19_Witness ==
    \E i, j \in DOMAIN pipelines :
        /\ pipelines[i].destructor = Len(DestructorOrder)
        /\ Cardinality(pipelines[i].created) = 2
        /\ pipelines[j].destructor = 0
        /\ Cardinality(C19_Held(pipelines[j])) = 2
        /\ C19_Held(pipelines[j]) \subseteq vk.live

-----------------------------------------------------------------------------
(* C20 *)

\* C20: no step changes the PipelineState copy of a Pipeline already
\* constructed, and no step other than a call of that Pipeline's destructor
\* changes its native handles; this holds in particular when the caller
\* changes the PipelineState the Pipeline was built from.
C20_PipelineImmutable ==
    [][ \A i \in DOMAIN pipelines :
            /\ pipelines'[i].m_state = pipelines[i].m_state
            /\ (lastOp'.op = "~RHI_Pipeline" /\ lastOp'.arg = <<i>>)
               \/ (/\ pipelines'[i].m_pipeline = pipelines[i].m_pipeline
                   /\ pipelines'[i].m_pipeline_layout = pipelines[i].m_pipeline_layout) ]_vars

\* the caller has just changed the viewport of its PipelineState after a
\* Pipeline was built in full from it
C20_Witness ==
    /\ lastOp.op = "SetPipelineState"
    /\ pipelines # << >>
    /\ pipelines[1].m_pipeline # VK_NULL_HANDLE
    /\ pipelines[1].destructor = 0
    /\ pipelines[1].m_state.viewport # pipeState.viewport

-----------------------------------------------------------------------------
(* C21 *)

\* C21: a SetInputLayout call with a layout object returns false exactly when
\* the layout it asks for is the active one, and then leaves the layout, the
\* layout buffer and the input-layout dirty flag as they were; otherwise it
\* stores the layout and its buffer, sets the flag and returns true.
C21_SetInputLayout ==
    [][ lastOp'.op = "SetInputLayout" /\ lastOp'.arg # <<Null>> =>
          LET inputLayout == lastOp'.arg[1]
          IN  IF ps.m_inputLayout = GetInputLayout(inputLayout)
              THEN /\ ret' = FALSE
                   /\ ps'.m_inputLayout = ps.m_inputLayout
                   /\ ps'.m_inputLayoutBuffer = ps.m_inputLayoutBuffer
                   /\ ps'.m_inputLayoutDirty = ps.m_inputLayoutDirty
              ELSE /\ ret' = TRUE
                   /\ ps'.m_inputLayout = GetInputLayout(inputLayout)
                   /\ ps'.m_inputLayoutBuffer = GetInputLayoutBuffer(inputLayout)
                   /\ ps'.m_inputLayoutDirty ]_vars

\* SetInputLayout has just returned false for the layout that a Bind() had
\* committed, the flag still clear
C21_Witness ==
    /\ lastOp.op = "SetInputLayout"
    /\ lastOp.arg # <<Null>>
    /\ ret = FALSE
    /\ committed
    /\ ps.m_inputLayout = GetInputLayout(lastOp.arg[1])
    /\ ~ps.m_inputLayoutDirty

-----------------------------------------------------------------------------
(* C22 *)

\* the viewports a draw with Pipeline p can use: the one of its PipelineState
\* when that is baked into the pipeline, any defined one set per draw when the
\* viewport is a dynamic state
C22_DrawViewports(p) ==
    IF \E k \in DOMAIN p.dynamic_states : p.dynamic_states[k] = "VK_DYNAMIC_STATE_VIEWPORT"
    THEN { viewport \in Viewports : IsDefined(viewport) }
    ELSE { p.m_state.viewport }

\* C22: the scissor rectangle baked into a native pipeline whose scissor is
\* not a dynamic state is, when the PipelineState defines no scissor rectangle, the
\* rectangle at offset (0,0) with the width and height of the viewport the
\* draw uses, and the PipelineState's rectangle when it defines one.
C22_ScissorCoversViewport ==
    \A i \in DOMAIN pipelines :
        LET p == pipelines[i]
        IN  (p.m_pipeline # VK_NULL_HANDLE /\ ~p.m_state.dynamic_scissor) =>
                IF IsDefined(p.m_state.scissor)
                THEN p.scissor = p.m_state.scissor
                ELSE \A viewport \in C22_DrawViewports(p) :
                         p.scissor = <<0, 0, viewport[1], viewport[2]>>

-----------------------------------------------------------------------------
(* C23 *)

\* C23: the rasterizer line width of a Pipeline is the requested one when the
\* device supports wide lines and 1.0 when it does not; and a Pipeline built
\* from compiled shaders is left without a native pipeline only by a failed
\* backend call, whatever line width was requested.
C23_LineWidth ==
    \A i \in DOMAIN pipelines :
        LET p == pipelines[i]
        IN  /\ \E k \in DOMAIN p.steps : p.steps[k] = "FixedFunction"
            /\ p.lineWidth = IF vk.wideLines THEN p.m_state.line_width ELSE UnitLineWidth
            /\ (p.destructor = 0 /\ p.m_pipeline = VK_NULL_HANDLE) =>
                   p.failed \cap {"PipelineLayout", "GraphicsPipeline"} # {}

\* a native pipeline built with line width 1.0 on a device without wide
\* lines, for a PipelineState that asks for a wider line
C23_Witness ==
    /\ ~vk.wideLines
    /\ \E i \in DOMAIN pipelines :
           /\ pipelines[i].m_state.line_width > UnitLineWidth
           /\ pipelines[i].lineWidth = UnitLineWidth
           /\ pipelines[i].m_pipeline # VK_NULL_HANDLE

-----------------------------------------------------------------------------
(* C24 *)

\* C24: right after construction no category of the RHI_PipelineState is
\* dirty, and a Bind() made as the first call on the object issues no backend
\* call and returns true.
C24_CleanAfterConstruction ==
    /\ lastOp.op = "RHI_PipelineState" => DirtySet(ps) = {}
    /\ (IsBind(lastOp) /\ opsLeft = MaxOps - 1) => (calls = << >> /\ ret = TRUE)

-----------------------------------------------------------------------------
(* C25 *)

\* C25: in every state the samplers flag is set exactly when the sampler list
\* holds an entry, and so for the textures and for the constant buffers; and
\* every Bind_Samplers and Bind_Textures call of a Bind() hands over at least
\* one element.
C25_FlagIffListed ==
    /\ ps.m_samplersDirty <=> ps.m_samplers # << >>
    /\ ps.m_texturesDirty <=> ps.m_textures # << >>
    /\ ps.m_constantBufferDirty <=> ps.m_constantBuffersInfo # << >>
    /\ IsBind(lastOp) =>
           \A i \in CallsOf(calls, "Samplers") \cup CallsOf(calls, "Textures") :
               /\ calls[i].count >= 1
               /\ Len(calls[i].data) = calls[i].count

\* a Bind() that handed over a sampler, a texture and a constant buffer and
\* left the three lists empty and the three flags clear
C25_Witness ==
    /\ IsBind(lastOp)
    /\ \A cat \in {"Samplers", "Textures", "ConstantBuffers"} : CallsOf(calls, cat) # {}
    /\ ps.m_samplers = << >> /\ ~ps.m_samplersDirty
    /\ ps.m_textures = << >> /\ ~ps.m_texturesDirty
    /\ ps.m_constantBuffersInfo = << >> /\ ~ps.m_constantBufferDirty

-----------------------------------------------------------------------------
(* C26 *)

\* the PipelineStates the statement names: no vertex shader, a vertex shader
\* without module or entry point, or a pixel shader without module or entry
\* point
C26_Rejected(state) ==
    \/ state.shader_vertex = Null
    \/ state.shader_vertex \in {"vertexShaderUncompiled", "vertexShaderUnnamed"}
    \/ state.shader_pixel \in {"pixelShaderUncompiled", "pixelShaderUnnamed"}

C26_Reached(p, step) == \E k \in DOMAIN p.steps : p.steps[k] = step

\* C26: a Pipeline constructed from a PipelineState whose vertex shader is
\* absent or lacks module or entry point, or whose pixel shader is present and
\* lacks module or entry point, has no descriptor set, no pipeline layout and
\* no pipeline and made no backend object; constructed with a good vertex
\* shader and no pixel shader it goes on to the descriptor set with the vertex
\* stage alone.
C26_InvalidShadersReturnEarly ==
    \A i \in DOMAIN pipelines :
        LET p == pipelines[i]
        IN  /\ C26_Rejected(p.m_state) =>
                   /\ p.m_descriptor_set = Null
                   /\ p.m_pipeline_layout = VK_NULL_HANDLE
                   /\ p.m_pipeline = VK_NULL_HANDLE
                   /\ p.created = {}
                   /\ ~C26_Reached(p, "FixedFunction")
                   /\ ~C26_Reached(p, "DescriptorSet")
            /\ (p.m_state.shader_vertex = "vertexShader" /\ p.m_state.shader_pixel = Null) =>
                   /\ p.shader_stages = <<"vertexShader">>
                   /\ C26_Reached(p, "DescriptorSet")
                   /\ p.m_descriptor_set # Null

\* a Pipeline constructed with a good vertex shader and a pixel shader that
\* has a module and no entry point: the constructor stopped at the shader
\* stages and every member is null
C26_Witness ==
    \E i \in DOMAIN pipelines :
        /\ pipelines[i].m_state.shader_vertex = "vertexShader"
        /\ pipelines[i].m_state.shader_pixel = "pixelShaderUnnamed"
        /\ pipelines[i].steps[Len(pipelines[i].steps)] = "ShaderStages"
        /\ pipelines[i].m_descriptor_set = Null
        /\ pipelines[i].m_pipeline_layout = VK_NULL_HANDLE
        /\ pipelines[i].m_pipeline = VK_NULL_HANDLE

-----------------------------------------------------------------------------
(* C27 *)

\* C27: Create leaves in m_size_gpu the product of stride and element count,
\* and GetOffset() and GetOffsetDynamic() return the product of the offset
\* index and the stride, each as the product of the integers and not reduced
\* modulo the width of a uint32_t.
C27_ExactProducts ==
    /\ lastOp.op = "Create" =>
           cbuffer.m_size_gpu = cbuffer.m_stride * cbuffer.m_element_count
    /\ lastOp.op = "GetOffset" => ret = cbuffer.m_offset_index * cbuffer.m_stride
    /\ lastOp.op = "GetOffsetDynamic" =>
           ret = cbuffer.m_offset_dynamic_index * cbuffer.m_stride

-----------------------------------------------------------------------------
(* C28 *)

\* C28: after a Load that read its scene, every folder a mesh, a material or
\* a texture was saved into is one that this Load created.
C28_SavedIntoCreated ==
    (lastOp.op = "Load" /\ ret = TRUE) =>
        \A i \in DOMAIN importer.saved :
            \E k \in DOMAIN importer.created : importer.created[k] = importer.saved[i]

=============================================================================
